---- MODULE Spec2Model ----
(***************************************************************************)
(* A model of tacker/vnfm/infra_drivers/openstack/translate_template.py:   *)
(* the TOSCAToHOT translation run (generate_hot and the stages it calls),  *)
(* the parameter resolver _update_params and the scaling policy expander   *)
(* _convert_to_heat_scaling_policy.                                        *)
(*                                                                         *)
(* Python values are modelled by what the code can tell apart:             *)
(*   - an int is IntV(n), a str is StrV(<<chars>>): the two are different  *)
(*     values even when the text of one prints the other;                  *)
(*   - a text produced by a serializer is a record naming the document it  *)
(*     holds and the writer that formatted it: two texts of one document   *)
(*     written by different writers are different texts;                   *)
(*   - a resource or policy name built by '%' formatting is the sequence   *)
(*     of the pieces the format string joins.                              *)
(***************************************************************************)
EXTENDS Integers, Sequences, FiniteSets, TLC

VARIABLES
    scal,       \* the scaling policy expander under test: input and result
    prm,        \* the parameter resolver under test: input and result
    self,       \* the TOSCAToHOT object: vnf, vnfd_yaml, fields,
                \* unsupported_props, heat_template_yaml, monitoring_dict
    vnf0,       \* vnf['attributes'] as it was before the run
    loc,        \* the locals of generate_hot and _handle_scaling
    pc,         \* where generate_hot is
    exc,        \* the exception generate_hot raised, "" when none
    calls       \* the stages invoked so far, in order

run == <<self, vnf0, loc, pc, exc, calls>>
vars == <<scal, prm, run>>

(***************************************************************************)
(* Python scalars.                                                         *)
(***************************************************************************)
IntV(n) == [kind |-> "int", int |-> n, str |-> <<>>]
StrV(s) == [kind |-> "str", int |-> 0, str |-> s]

DigitChar(d) ==
    CASE d = 0 -> "0" [] d = 1 -> "1" [] d = 2 -> "2" [] d = 3 -> "3"
      [] d = 4 -> "4" [] d = 5 -> "5" [] d = 6 -> "6" [] d = 7 -> "7"
      [] d = 8 -> "8" [] OTHER -> "9"

RECURSIVE NatDigits(_)
NatDigits(n) ==
    IF n < 10 THEN <<DigitChar(n)>>
    ELSE NatDigits(n \div 10) \o <<DigitChar(n % 10)>>

\* '%d' % n
FormatD(n) == IF n < 0 THEN <<"-">> \o NatDigits(0 - n) ELSE NatDigits(n)

\* int(v): of an int, the int; of a str, the number its digits spell
\* (only the int case is drawn by the inputs below)
PyInt(v) == v.int

(***************************************************************************)
(* Module constants and get_scaling_policy_name.                           *)
(***************************************************************************)
ALARMING_POLICY == "tosca.policies.tacker.Alarming"
SCALING_POLICY == "tosca.policies.tacker.Scaling"

get_scaling_policy_name(action, policy_name) ==
    <<policy_name, "_scale_", action>>

(***************************************************************************)
(* The scaling expander.                                                   *)
(***************************************************************************)
_get_scale_group_name(targets) == <<"G1">>

_convert_to_heat_scaling_group(policy_prp, scale_resource_type, name) ==
    [type |-> "OS::Heat::AutoScalingGroup",
     properties |->
        [min_size |-> policy_prp.min_instances,
         max_size |-> policy_prp.max_instances,
         desired_capacity |-> policy_prp.default_instances,
         cooldown |-> policy_prp.cooldown,
         resource |-> [type |-> scale_resource_type]]]

\* line 504: in_value = '-%d' % int(policy_prp['increment'])
ScaleInValue(increment) == StrV(<<"-">> \o FormatD(PyInt(increment)))

\* Returns <<resources, scaling_group_names>>; resources is a function from
\* resource name to resource.
_convert_to_heat_scaling_policy(policy_prp, scale_resource_type, name) ==
    LET scale_grp == _get_scale_group_name(policy_prp.targets)
        grp_id == [get_resource |-> scale_grp]
        policy_hot ==
            [type |-> "OS::Heat::ScalingPolicy",
             properties |->
                [adjustment_type |-> "change_in_capacity",
                 cooldown |-> policy_prp.cooldown,
                 scaling_adjustment |-> policy_prp.increment,
                 auto_scaling_group_id |-> grp_id]]
        policy_hot_in ==
            [policy_hot EXCEPT
                !.properties.scaling_adjustment =
                    ScaleInValue(policy_prp.increment)]
        out_name == get_scaling_policy_name("out", name)
        in_name == get_scaling_policy_name("in", name)
        \* dict assignments in the order of the code: a later one wins
        r1 == (scale_grp :> _convert_to_heat_scaling_group(
                                policy_prp, scale_resource_type, scale_grp))
        r2 == (out_name :> policy_hot) @@ r1
        r3 == (in_name :> policy_hot_in) @@ r2
    IN  <<r3, (name :> scale_grp)>>

(***************************************************************************)
(* Inputs of the scaling expander.                                         *)
(***************************************************************************)
MaxIncrement == 12
PolicyNames == {"SP1", "SP2"}
Cooldowns == {60, 120}
ScaleResourceTypes == {"scaling.yaml", "OS::Nova::Server"}

ScalingProps(incr, cd) ==
    [min_instances |-> IntV(1), max_instances |-> IntV(3),
     default_instances |-> IntV(1), cooldown |-> IntV(cd),
     increment |-> incr, targets |-> <<"VDU1">>]

ScalIdle == [pc |-> "idle"]
PrmIdle == [pc |-> "idle"]

\* no translation run is under way
RunIdle ==
    /\ self = <<>> /\ vnf0 = <<>> /\ loc = <<>>
    /\ pc = "idle" /\ exc = "" /\ calls = <<>>

InitScaling ==
    /\ \E i \in 1..MaxIncrement, cd \in Cooldowns, n \in PolicyNames,
          t \in ScaleResourceTypes :
          scal = [pc |-> "call", policy_prp |-> ScalingProps(IntV(i), cd),
                  scale_resource_type |-> t, name |-> n]
    /\ prm = PrmIdle
    /\ RunIdle

ConvertToHeatScalingPolicy ==
    /\ scal.pc = "call"
    /\ LET r == _convert_to_heat_scaling_policy(
                    scal.policy_prp, scal.scale_resource_type, scal.name)
       IN scal' = [pc |-> "returned", policy_prp |-> scal.policy_prp,
                   scale_resource_type |-> scal.scale_resource_type,
                   name |-> scal.name,
                   resources |-> r[1], scaling_group_names |-> r[2]]
    /\ UNCHANGED <<prm, run>>

NextScaling == ConvertToHeatScalingPolicy

SpecScaling == InitScaling /\ [][NextScaling]_vars

\* C1: for every positive integer increment I, the '<name>_scale_out'
\* resource has scaling_adjustment exactly I, the '<name>_scale_in' resource
\* has scaling_adjustment exactly -I, a value of the same kind as I (an
\* integer), and the two resources agree in every other property.
C1_ScaleInIsNegatedIncrement ==
    scal.pc = "returned" =>
        LET I == scal.policy_prp.increment
            out == scal.resources[get_scaling_policy_name("out", scal.name)]
            in == scal.resources[get_scaling_policy_name("in", scal.name)]
        IN  /\ I.kind = "int" /\ I.int > 0
            /\ out.properties.scaling_adjustment = I
            /\ in.properties.scaling_adjustment = IntV(0 - I.int)
            /\ [in EXCEPT !.properties.scaling_adjustment = I] = out

(***************************************************************************)
(* The parameter resolver.  A document value is a str leaf or a dict; a    *)
(* dict's items is a function from key to value.                           *)
(***************************************************************************)
NoItems == [k \in {} |-> 0]
Leaf(s) == [kind |-> "str", s |-> s, items |-> NoItems]
Dict(f) == [kind |-> "dict", s |-> "", items |-> f]

IsDict(v) == v.kind = "dict"

\* k in d, for a dict d
HasKey(d, k) == k \in DOMAIN d.items

\* 'get_input' in str(value): the printed value mentions the marker when a
\* key or a leaf text anywhere inside it does
RECURSIVE MentionsGetInput(_)
MentionsGetInput(v) ==
    IF IsDict(v)
    THEN \E k \in DOMAIN v.items :
            k = "get_input" \/ MentionsGetInput(v.items[k])
    ELSE v.s = "get_input"

\* what the loop does with the entry of a nested call's result
Recursed(r) == [raised |-> r.raised, value |-> r.doc]

\* the call's result from what the loop did with each entry: the first entry
\* to raise ends the call
Visited(visits) ==
    [raised |-> \E k \in DOMAIN visits : visits[k].raised,
     doc |-> Dict([k \in DOMAIN visits |-> visits[k].value])]

\* The result of one call: raised, or the document as the call left it.
\* An entry the loop leaves alone keeps its value.
RECURSIVE _update_params(_, _, _)
_update_params(original, paramvalues, match) ==
    LET Visit(key, value) ==
            IF ~IsDict(value) \/ ~MentionsGetInput(value)
            THEN [raised |-> FALSE, value |-> value]
            ELSE IF ~match
            THEN \* key in paramvalues, paramvalues[key]: of a dict only
                 IF ~IsDict(paramvalues)
                 THEN [raised |-> TRUE, value |-> value]
                 ELSE IF HasKey(paramvalues, key)
                         /\ IsDict(paramvalues.items[key])
                         /\ HasKey(paramvalues.items[key], "param")
                 THEN Recursed(_update_params(
                        value, paramvalues.items[key].items["param"], TRUE))
                 ELSE IF HasKey(paramvalues, key)
                 THEN Recursed(_update_params(
                        value, paramvalues.items[key], FALSE))
                 ELSE [raised |-> TRUE, value |-> value]
            ELSE IF HasKey(value, "get_input")
            THEN IF ~IsDict(value.items["get_input"]) /\ IsDict(paramvalues)
                    /\ HasKey(paramvalues, value.items["get_input"].s)
                 THEN [raised |-> FALSE,
                       value |->
                        paramvalues.items[value.items["get_input"].s]]
                 ELSE [raised |-> TRUE, value |-> value]
            ELSE Recursed(_update_params(value, paramvalues, TRUE))
    IN  Visited([k \in DOMAIN original.items |->
                    Visit(k, original.items[k])])

\* a mapping {get_input: ...} is the value of some key, at any depth
RECURSIVE HasPlaceholder(_)
HasPlaceholder(d) ==
    \E k \in DOMAIN d.items :
        LET v == d.items[k] IN
        IsDict(v) /\ (HasKey(v, "get_input") \/ HasPlaceholder(v))

(***************************************************************************)
(* Inputs of the parameter resolver: every document of the shapes below.   *)
(***************************************************************************)
DictsOver(keys, values) ==
    UNION {[S -> values] : S \in (SUBSET keys) \ {{}}}

DocLeaves == {Leaf("v"), Leaf("x"), Leaf("get_input")}
DocKeys == {"a", "get_input"}
DocLevel1 == DocLeaves \cup {Dict(f) : f \in DictsOver(DocKeys, DocLeaves)}
DocLevel2 == DocLeaves \cup {Dict(f) : f \in DictsOver(DocKeys, DocLevel1)}
Originals == {Dict(f) : f \in DictsOver({"a"}, DocLevel2)}

ParamLeaves == {Leaf("v")}
ParamKeys == {"a", "param", "x"}
ParamLevel1 ==
    ParamLeaves \cup {Dict(f) : f \in DictsOver(ParamKeys, ParamLeaves)}
ParamLevel2 ==
    ParamLeaves \cup {Dict(f) : f \in DictsOver(ParamKeys, ParamLevel1)}
ParamDocs ==
    {Dict(NoItems)} \cup {Dict(f) : f \in DictsOver({"a"}, ParamLevel2)}

InitParams ==
    /\ \E o \in Originals, p \in ParamDocs :
          prm = [pc |-> "call", original |-> o, paramvalues |-> p]
    /\ scal = ScalIdle
    /\ RunIdle

UpdateParams ==
    /\ prm.pc = "call"
    /\ LET r == _update_params(prm.original, prm.paramvalues, FALSE)
       IN prm' = [pc |-> IF r.raised THEN "raised" ELSE "returned",
                  original |-> prm.original,
                  paramvalues |-> prm.paramvalues,
                  doc |-> r.doc]
    /\ UNCHANGED <<scal, run>>

NextParams == UpdateParams

SpecParams == InitParams /\ [][NextParams]_vars

\* C2: whenever _update_params returns without raising, no mapping
\* {get_input: ...} remains anywhere in the document, a placeholder that is
\* the direct value of a top-level (keyed-mode) key included.
C2_NoPlaceholderRemains ==
    prm.pc = "returned" => ~HasPlaceholder(prm.doc)

(***************************************************************************)
(* Texts.  yaml.dump, jsonutils.dumps and the external translator each     *)
(* write a text; a parse gives back the document and forgets the writer.   *)
(***************************************************************************)
Text(writer, doc) == [writer |-> writer, doc |-> doc]
NoneValue == [writer |-> "None"]
EmptyText == [writer |-> "empty"]

yaml_dump(doc) == Text("yaml.dump", doc)
jsonutils_dumps(doc) == Text("jsonutils.dumps", doc)
simple_ordered_parse(text) == text.doc

\* truth of a text value: None and '' are false
Truthy(text) == text # NoneValue /\ text # EmptyText

\* d.get(key): None when the key is absent
Get(d, key) == IF key \in DOMAIN d THEN d[key] ELSE NoneValue

\* d with d[key] = value
Put(d, key, value) == (key :> value) @@ d

\* d after d.pop(key, default)
Without(d, key) == [k \in (DOMAIN d) \ {key} |-> d[k]]

\* d after d.update(e)
Update(d, e) == e @@ d

\* yaml.load(HEAT_TEMPLATE_BASE), with the sections the code adds
HEAT_TEMPLATE_BASE == [heat_template_version |-> "2013-05-23"]

(***************************************************************************)
(* The port synthesizer.  A template_dict is a record of outputs and       *)
(* resources, both functions from a name; a network_param is a function    *)
(* from its keys: network (a str), addresses ([islist, ips]), management   *)
(* (a boolean).                                                            *)
(***************************************************************************)
_make_port_dict(unsupported_props) ==
    LET props == IF unsupported_props # NoItems
                 THEN [value_specs |-> [port_security_enabled |-> FALSE]]
                 ELSE [port_security_enabled |-> FALSE]
    IN  [type |-> "OS::Neutron::Port",
         properties |-> IF "fixed_ips" \in DOMAIN props THEN props
                        ELSE Put(props, "fixed_ips", <<>>)]

_make_mgmt_outputs_dict(vdu_id, port, template_dict) ==
    [template_dict EXCEPT
        !.outputs = Put(@, <<"mgmt_ip-", vdu_id>>,
                        [description |-> "management ip address",
                         value |-> [get_attr |->
                                    <<port, "fixed_ips", 0, "ip_address">>]])]

\* port = None
NoPort == <<>>

\* Returns <<port, template_dict>>.
_handle_port_creation(unsupported_props, vdu_id, network_param, template_dict, ip_list, mgmt_flag) ==
    LET port == <<vdu_id, "-", network_param["network"], "-port">>
        port_dict == _make_port_dict(unsupported_props)
        tpl1 == IF mgmt_flag
                THEN _make_mgmt_outputs_dict(vdu_id, port, template_dict)
                ELSE template_dict
        fixed == port_dict.properties["fixed_ips"]
                    \o [i \in 1..Len(ip_list) |-> [ip_address |-> ip_list[i]]]
        props == Update(Put(port_dict.properties, "fixed_ips", fixed),
                        network_param)
    IN  <<port,
          [tpl1 EXCEPT !.resources =
                Put(@, port, [port_dict EXCEPT !.properties = props])]>>

\* What one pass of the loop of _process_vdu_network_interfaces holds:
\* [raised, port, network_param, template_dict].
PortResult(r, network_param) ==
    [raised |-> "", port |-> r[1], network_param |-> network_param,
     template_dict |-> r[2]]

\* network_param.pop('management', False)
PopManagement(network_param) ==
    "management" \in DOMAIN network_param /\ network_param["management"]

\* A variant of lines 211-220 that leaves 'management' in network_param,
\* so that the test of line 221 sees it again.
AddressBranchKeepsManagement(unsupported_props, vdu_id, network_param, template_dict) ==
    IF "addresses" \notin DOMAIN network_param
    THEN [raised |-> "", port |-> NoPort, network_param |-> network_param,
          template_dict |-> template_dict]
    ELSE IF ~network_param["addresses"].islist
    THEN [raised |-> "IPAddrInvalidInput", port |-> NoPort,
          network_param |-> network_param, template_dict |-> template_dict]
    ELSE PortResult(
            _handle_port_creation(
                unsupported_props, vdu_id,
                Without(Without(network_param, "addresses"), "management"),
                template_dict, network_param["addresses"].ips,
                PopManagement(network_param)),
            Without(network_param, "addresses"))

\* lines 211-220
AddressBranch(unsupported_props, vdu_id, network_param, template_dict) ==
    IF "addresses" \notin DOMAIN network_param
    THEN [raised |-> "", port |-> NoPort, network_param |-> network_param,
          template_dict |-> template_dict]
    ELSE IF ~network_param["addresses"].islist
    THEN [raised |-> "IPAddrInvalidInput", port |-> NoPort,
          network_param |-> network_param, template_dict |-> template_dict]
    ELSE PortResult(
            _handle_port_creation(
                unsupported_props, vdu_id,
                Without(Without(network_param, "addresses"), "management"),
                template_dict, network_param["addresses"].ips,
                PopManagement(network_param)),
            Without(Without(network_param, "addresses"), "management"))

\* lines 221-225, after the address branch left a
ManagementBranch(unsupported_props, vdu_id, a) ==
    IF a.raised # "" THEN a
    ELSE IF PopManagement(a.network_param)
    THEN PortResult(
            _handle_port_creation(
                unsupported_props, vdu_id,
                Without(a.network_param, "management"),
                a.template_dict, <<>>, TRUE),
            Without(a.network_param, "management"))
    ELSE [a EXCEPT !.network_param = Without(@, "management")]

\* lines 226-230: what is appended to networks_list
NetworksEntry(m) ==
    IF m.port # NoPort THEN [port |-> [get_resource |-> m.port]]
    ELSE m.network_param

\* [raised, template_dict, networks]: the loop over the interfaces from
\* the i-th on, networks being properties['networks'].
RECURSIVE _process_vdu_network_interfaces(_, _, _, _, _, _)
RECURSIVE NetworkInterfaceDone(_, _, _, _, _, _, _)
_process_vdu_network_interfaces(unsupported_props, vdu_id, network_interfaces, i, networks_list, template_dict) ==
    IF i > Len(network_interfaces)
    THEN [raised |-> "", template_dict |-> template_dict,
          networks |-> networks_list]
    ELSE NetworkInterfaceDone(
            unsupported_props, vdu_id, network_interfaces, i, networks_list,
            template_dict,
            ManagementBranch(
                unsupported_props, vdu_id,
                AddressBranch(unsupported_props, vdu_id,
                              network_interfaces[i], template_dict)))

NetworkInterfaceDone(unsupported_props, vdu_id, network_interfaces, i, networks_list, template_dict, m) ==
    IF m.raised # ""
    THEN [raised |-> m.raised, template_dict |-> template_dict,
          networks |-> networks_list]
    ELSE _process_vdu_network_interfaces(
            unsupported_props, vdu_id, network_interfaces, i + 1,
            Append(networks_list, NetworksEntry(m)), m.template_dict)

(***************************************************************************)
(* The legacy translator.  A vdu_dict is a record: id, vm_image (a         *)
(* document value: a text or a placeholder), instance_type, has_nics and   *)
(* network_interfaces, user_data and user_data_format (declared or not),   *)
(* monitoring_policy and failure_policy ("absent" when not declared),      *)
(* service_type (declared or not).  The optional pass-through keys         *)
(* placement_policy, config and key_name are declared by no input.         *)
(***************************************************************************)
GetInput(name) == Dict([get_input |-> Leaf(name)])

\* the parsed descriptor as _update_params walks it
VnfdDoc(description, vdus) ==
    Dict([description |-> description,
          vdus |-> Dict([id \in {vdus[i].id : i \in 1..Len(vdus)} |->
                    LET u == CHOOSE i \in 1..Len(vdus) : vdus[i].id = id
                    IN Dict([vm_image |-> vdus[u].vm_image])])])

\* the units as the resolved document gives them
VdusOf(doc, vdus) ==
    [i \in 1..Len(vdus) |->
        [vdus[i] EXCEPT !.vm_image =
            doc.items["vdus"].items[vdus[i].id].items["vm_image"]]]

\* lines 387-389
StructuredPing ==
    [form |-> "structured",
     policy |-> [ping |-> [actions |-> [failure |-> "respawn"]]]]
MonitoringName(name) == [form |-> "name", policy |-> name]

\* lines 392-394: the entry of a monitored unit
MonitoringEntry(monitoring_dict, vdu_id, policy) ==
    Put(monitoring_dict, "vdus", (vdu_id :> policy))

\* A variant of the user-data check that misses a lone format.
LoneUserDataPayloadOnly(vdu_dict) ==
    vdu_dict.user_data /\ ~vdu_dict.user_data_format

\* lines 364-368
LoneUserData(vdu_dict) ==
    /\ ~(vdu_dict.user_data /\ vdu_dict.user_data_format)
    /\ (vdu_dict.user_data \/ vdu_dict.user_data_format)

\* lines 350-368: the unit's properties
UnitProperties(vdu_dict, networks) ==
    LET p0 == [image |-> vdu_dict.vm_image,
               flavor |-> vdu_dict.instance_type]
        p1 == IF vdu_dict.has_nics THEN Put(p0, "networks", networks)
              ELSE p0
    IN  IF vdu_dict.user_data /\ vdu_dict.user_data_format
        THEN Put(Put(p1, "user_data_format", "RAW"),
                 "user_data", "#!/bin/sh")
        ELSE p1

\* lines 382-394: monitoring_dict after the unit
UnitMonitoring(vdu_dict, monitoring_dict) ==
    LET monitoring_policy == IF vdu_dict.monitoring_policy = "absent"
                             THEN "noop" ELSE vdu_dict.monitoring_policy
        failure_policy == IF vdu_dict.failure_policy = "absent"
                          THEN "noop" ELSE vdu_dict.failure_policy
    IN  IF monitoring_policy = "noop" THEN monitoring_dict
        ELSE IF monitoring_policy = "ping" /\ failure_policy = "respawn"
        THEN MonitoringEntry(monitoring_dict, vdu_dict.id, StructuredPing)
        ELSE MonitoringEntry(monitoring_dict, vdu_dict.id,
                             MonitoringName(vdu_dict.monitoring_policy))

\* lines 396-400: vnf['attributes'] after the unit
UnitAttributes(vdu_dict, attributes) ==
    IF vdu_dict.service_type
    THEN Put(attributes, vdu_dict.id,
             jsonutils_dumps([service_type |-> "firewall"]))
    ELSE attributes

\* lines 350-402 once the unit has a template_dict
UnitDone(vdu_dict, acc, template_dict) ==
    [raised |-> "", template_dict |-> template_dict,
     monitoring_dict |-> UnitMonitoring(vdu_dict, acc.monitoring_dict),
     attributes |-> UnitAttributes(vdu_dict, acc.attributes),
     heat_template_yaml |-> yaml_dump(template_dict)]

\* lines 350-402 after the interfaces of the unit left nics
UnitAfterNics(vdu_dict, acc, nics) ==
    IF nics.raised # ""
    THEN [acc EXCEPT !.raised = nics.raised]
    ELSE IF LoneUserData(vdu_dict)
    THEN [acc EXCEPT !.raised = "UserDataFormatNotFound"]
    ELSE UnitDone(
            vdu_dict, acc,
            [nics.template_dict EXCEPT
                !.resources =
                    Put(@, <<vdu_dict.id>>,
                        [type |-> "OS::Nova::Server",
                         properties |->
                            UnitProperties(vdu_dict, nics.networks)])])

\* lines 350-402, one pass of the loop over the units.  acc is
\* [raised, template_dict, monitoring_dict, attributes, heat_template_yaml].
LegacyUnit(unsupported_props, vdu_dict, acc) ==
    UnitAfterNics(
        vdu_dict, acc,
        IF vdu_dict.has_nics
        THEN _process_vdu_network_interfaces(
                unsupported_props, vdu_dict.id, vdu_dict.network_interfaces,
                1, <<>>, acc.template_dict)
        ELSE [raised |-> "", template_dict |-> acc.template_dict,
              networks |-> <<>>])

RECURSIVE LegacyUnits(_, _, _, _)
LegacyUnits(unsupported_props, vdus, i, acc) ==
    IF i > Len(vdus) \/ acc.raised # "" THEN acc
    ELSE LegacyUnits(unsupported_props, vdus, i + 1,
                     LegacyUnit(unsupported_props, vdus[i], acc))

\* line 200: what _update_params left
Resolved(r) ==
    [raised |-> IF r.raised THEN "InputValuesMissing" ELSE "",
     vnfd_dict |-> r.doc]

\* lines 189-202: [raised, vnfd_dict]
_process_parameterized_input(dev_attrs, vnfd_dict) ==
    IF ~Truthy(Get(dev_attrs, "param_values"))
    THEN [raised |-> "ParamYAMLInputMissing", vnfd_dict |-> vnfd_dict]
    ELSE IF dev_attrs["param_values"].writer = "malformed"
    THEN [raised |-> "ParamYAMLNotWellFormed", vnfd_dict |-> vnfd_dict]
    ELSE Resolved(_update_params(vnfd_dict, dev_attrs["param_values"].doc,
                                 FALSE))

\* the result of _generate_hot_from_legacy when it raises e
LegacyFailed(e, attributes) ==
    [raised |-> e, heat_template_yaml |-> NoneValue,
     monitoring_dict |-> NoneValue, attributes |-> attributes]

\* lines 404-405, after the loop over the units left acc
LegacyAfterUnits(vnfd_yaml, acc) ==
    IF acc.raised # "" THEN LegacyFailed(acc.raised, acc.attributes)
    ELSE IF Len(vnfd_yaml.vdus) = 0
    THEN LegacyFailed("UnboundLocalError", acc.attributes)
    ELSE [raised |-> "",
          heat_template_yaml |-> acc.heat_template_yaml,
          monitoring_dict |-> acc.monitoring_dict,
          attributes |-> acc.attributes]

\* lines 344-405, after the parameters were resolved to params
LegacyAfterParams(unsupported_props, attributes, vnfd_yaml, params) ==
    IF params.raised # "" THEN LegacyFailed(params.raised, attributes)
    ELSE LegacyAfterUnits(
            vnfd_yaml,
            LegacyUnits(
                unsupported_props,
                VdusOf(params.vnfd_dict, vnfd_yaml.vdus), 1,
                [raised |-> "",
                 template_dict |->
                    [heat_template_version |->
                        HEAT_TEMPLATE_BASE.heat_template_version,
                     description |-> params.vnfd_dict.items["description"],
                     outputs |-> NoItems, resources |-> NoItems],
                 monitoring_dict |-> NoItems,
                 attributes |-> attributes,
                 heat_template_yaml |-> NoneValue]))

\* A variant of lines 341-342 that resolves parameters for every descriptor.
LegacyParamsAlways(dev_attrs, vnfd_dict) ==
    _process_parameterized_input(dev_attrs, vnfd_dict)

\* lines 341-342, on the parsed descriptor
LegacyParams(dev_attrs, vnfd_dict) ==
    IF MentionsGetInput(vnfd_dict)
    THEN _process_parameterized_input(dev_attrs, vnfd_dict)
    ELSE [raised |-> "", vnfd_dict |-> vnfd_dict]

\* lines 331-405: [raised, heat_template_yaml, monitoring_dict, attributes],
\* attributes being vnf['attributes'] as the call leaves it
_generate_hot_from_legacy(unsupported_props, fields, attributes, vnfd_yaml, dev_attrs) ==
    IF "template" \in DOMAIN fields \/ "template_url" \in DOMAIN fields
    THEN LegacyFailed("AssertionError", attributes)
    ELSE LegacyAfterParams(
            unsupported_props, attributes, vnfd_yaml,
            LegacyParams(dev_attrs,
                         VnfdDoc(vnfd_yaml.description, vnfd_yaml.vdus)))

(***************************************************************************)
(* The scaling and alarm expanders over a topology.  A policy of the list  *)
(* is [name, type, wellformed]: a well-formed policy carries every key     *)
(* the expanders read, a malformed one lacks one (a KeyError when read).   *)
(***************************************************************************)
PolicyProperties(policy) == ScalingProps(IntV(1), 60)

PolicyTriggers(policy) ==
    [resize_compute |->
        [metrics |-> "cpu_util",
         condition |-> [comparison_operator |-> "gt", period |-> IntV(600),
                        evaluations |-> IntV(1), method |-> "avg",
                        constraint |-> "utilization greater_than 50%",
                        threshold |-> IntV(50)]]]

\* the first policy of the list with the given type, 0 when there is none:
\* the loop's break
FirstPolicy(policies, type) ==
    IF \E i \in 1..Len(policies) : policies[i].type = type
    THEN CHOOSE i \in 1..Len(policies) :
            /\ policies[i].type = type
            /\ \A j \in 1..(i - 1) : policies[j].type # type
    ELSE 0

\* A variant of the scaling expander whose loop has no break: the last
\* scaling policy of the list is the one expanded.
GenerateHotScalingLastPolicy(vnfd_dict, scale_resource_type) ==
    LET template_dict ==
            [heat_template_version |->
                HEAT_TEMPLATE_BASE.heat_template_version,
             description |-> "Tacker scaling template",
             parameters |-> NoItems, resources |-> NoItems]
        scaling == {i \in 1..Len(vnfd_dict.policies) :
                        vnfd_dict.policies[i].type = SCALING_POLICY}
        last == CHOOSE i \in scaling : \A j \in scaling : j <= i
        conv == _convert_to_heat_scaling_policy(
                    PolicyProperties(vnfd_dict.policies[last]),
                    scale_resource_type, vnfd_dict.policies[last].name)
    IN  IF scaling = {}
        THEN [raised |-> "", is_scaling_needed |-> FALSE,
              scaling_group_names |-> NoItems, main_dict |-> template_dict]
        ELSE IF \E i \in scaling : ~vnfd_dict.policies[i].wellformed
        THEN [raised |-> "KeyError", is_scaling_needed |-> FALSE,
              scaling_group_names |-> NoItems, main_dict |-> template_dict]
        ELSE [raised |-> "", is_scaling_needed |-> TRUE,
              scaling_group_names |-> conv[2],
              main_dict |-> [template_dict EXCEPT !.resources = conv[1]]]

\* lines 408-439: [raised, is_scaling_needed, scaling_group_names, main_dict]
_generate_hot_scaling(vnfd_dict, scale_resource_type) ==
    LET template_dict ==
            [heat_template_version |->
                HEAT_TEMPLATE_BASE.heat_template_version,
             description |-> "Tacker scaling template",
             parameters |-> NoItems, resources |-> NoItems]
        i == FirstPolicy(vnfd_dict.policies, SCALING_POLICY)
        policy == vnfd_dict.policies[i]
        conv == _convert_to_heat_scaling_policy(
                    PolicyProperties(policy), scale_resource_type,
                    policy.name)
    IN  IF i = 0
        THEN [raised |-> "", is_scaling_needed |-> FALSE,
              scaling_group_names |-> NoItems, main_dict |-> template_dict]
        ELSE IF ~policy.wellformed
        THEN [raised |-> "KeyError", is_scaling_needed |-> FALSE,
              scaling_group_names |-> NoItems, main_dict |-> template_dict]
        ELSE [raised |-> "",
              is_scaling_needed |-> DOMAIN conv[1] # {},
              scaling_group_names |-> conv[2],
              main_dict |-> [template_dict EXCEPT !.resources = conv[1]]]

\* line 575: str(vnf['attributes'].get('alarm_url'))
AlarmUrlStr(attributes) ==
    IF "alarm_url" \in DOMAIN attributes THEN attributes["alarm_url"]
    ELSE "None"

\* lines 561-579
_convert_to_heat_monitoring_prop(mon_policy, vnf) ==
    LET tpl_trigger_name == PolicyTriggers(mon_policy)["resize_compute"]
        tpl_condition == tpl_trigger_name.condition
        properties ==
            [meter_name |-> tpl_trigger_name.metrics,
             comparison_operator |-> tpl_condition.comparison_operator,
             period |-> tpl_condition.period,
             evaluation_periods |-> tpl_condition.evaluations,
             statistic |-> tpl_condition.method,
             description |-> tpl_condition.constraint,
             threshold |-> tpl_condition.threshold]
        alarm_url == AlarmUrlStr(vnf.attributes)
    IN  IF alarm_url # ""
        THEN Put(properties, "alarm_actions", <<alarm_url>>)
        ELSE properties

\* A variant of the alarm resource that correlates nothing: the alarm and
\* the sub-template as they are without the metadata pair.
MonitoringResourceUncorrelated(mon_policy, vnf, sub_heat_dict, topology_tpl_dict) ==
    [raised |-> IF mon_policy.wellformed THEN "" ELSE "KeyError",
     mon_policy_hot |-> [type |-> "OS::Aodh::Alarm",
                         properties |->
                            _convert_to_heat_monitoring_prop(mon_policy,
                                                             vnf)],
     sub_heat_dict |-> sub_heat_dict]

\* lines 536-558: [raised, mon_policy_hot, sub_heat_dict]
_convert_to_heat_monitoring_resource(mon_policy, vnf, sub_heat_dict, topology_tpl_dict) ==
    LET mon_policy_hot == [type |-> "OS::Aodh::Alarm",
                           properties |->
                              _convert_to_heat_monitoring_prop(mon_policy,
                                                               vnf)]
        scaling == FirstPolicy(topology_tpl_dict.policies, SCALING_POLICY)
        metadata_dict == ("metering.vnf_id" :> vnf.id)
        matching_metadata_dict == ("metadata.user_metadata.vnf_id" :> vnf.id)
    IN  IF ~mon_policy.wellformed
        THEN [raised |-> "KeyError", mon_policy_hot |-> mon_policy_hot,
              sub_heat_dict |-> sub_heat_dict]
        ELSE IF scaling = 0
        THEN [raised |-> "", mon_policy_hot |-> mon_policy_hot,
              sub_heat_dict |-> sub_heat_dict]
        ELSE IF <<"VDU1">> \notin DOMAIN sub_heat_dict.resources
        THEN [raised |-> "KeyError", mon_policy_hot |-> mon_policy_hot,
              sub_heat_dict |-> sub_heat_dict]
        ELSE [raised |-> "",
              mon_policy_hot |->
                [mon_policy_hot EXCEPT !.properties =
                    Put(@, "matching_metadata", matching_metadata_dict)],
              sub_heat_dict |->
                [sub_heat_dict EXCEPT !.resources[<<"VDU1">>].properties =
                    Put(@, "metadata", metadata_dict)]]

\* lines 512-533: [raised, is_enabled_alarm, alarm_resource,
\* sub_heat_tpl_yaml, heat_template_yaml], the last being
\* self.heat_template_yaml as the call leaves it
_generate_hot_alarm_resource(heat_tpl, vnf, topology_tpl_dict) ==
    LET heat_dict == simple_ordered_parse(heat_tpl)
        i == FirstPolicy(topology_tpl_dict.policies, ALARMING_POLICY)
        policy == topology_tpl_dict.policies[i]
        conv == _convert_to_heat_monitoring_resource(
                    policy, vnf, heat_dict, topology_tpl_dict)
        alarm_resource == (<<policy.name>> :> conv.mon_policy_hot)
    IN  IF i = 0
        THEN [raised |-> "", is_enabled_alarm |-> FALSE,
              alarm_resource |-> NoItems,
              sub_heat_tpl_yaml |-> yaml_dump(heat_dict),
              heat_template_yaml |-> yaml_dump(heat_dict)]
        ELSE IF conv.raised # ""
        THEN [raised |-> conv.raised, is_enabled_alarm |-> TRUE,
              alarm_resource |-> NoItems,
              sub_heat_tpl_yaml |-> NoneValue,
              heat_template_yaml |-> heat_tpl]
        ELSE [raised |-> "", is_enabled_alarm |-> TRUE,
              alarm_resource |-> alarm_resource,
              sub_heat_tpl_yaml |-> yaml_dump(conv.sub_heat_dict),
              heat_template_yaml |->
                yaml_dump([heat_dict EXCEPT
                            !.resources = Update(@, alarm_resource)])]

(***************************************************************************)
(* The translation run: generate_hot, one action per stage.                *)
(***************************************************************************)
Raise(e) == pc' = "failed" /\ exc' = e

\* lines 57-66: the object as __init__ leaves it
NewTranslator(v) ==
    [vnf |-> v, vnfd_yaml |-> NoneValue, unsupported_props |-> NoItems,
     heat_template_yaml |-> NoneValue, monitoring_dict |-> NoneValue,
     fields |-> NoneValue]

\* lines 278-289: what the probe of the heat client leaves
UnsupportedProps(supported) ==
    IF supported THEN NoItems
    ELSE ("OS::Neutron::Port" :> [port_security_enabled |-> "value_specs"])

\* lines 71-76: _get_vnfd, _update_fields, the parse of the descriptor and
\* the probe of the heat client
Prepare ==
    /\ pc = "start"
    /\ \E supported \in BOOLEAN :
        self' = [self EXCEPT
            !.vnfd_yaml = self.vnf.vnfd,
            !.fields = IF "template" \in DOMAIN self.vnf.attributes
                       THEN [template |-> self.vnf.attributes["template"]]
                       ELSE NoItems,
            !.unsupported_props = UnsupportedProps(supported)]
    /\ loc' = [dev_attrs |-> Without(self.vnf.attributes, "template")]
    /\ pc' = "dialect"
    /\ UNCHANGED <<scal, prm, vnf0, exc, calls>>

\* what the external parser and translator may answer
TranslatedUnits == {{"VDU1"}, {"VDU2"}, {"VDU1", "VDU2"}}
ToscaMonitoring == {NoItems, [vdus |-> [VDU1 |-> StructuredPing]]}
ToscaOutcomes ==
    {[parser_ok |-> FALSE, translator_ok |-> FALSE, units |-> {},
      monitoring |-> NoItems],
     [parser_ok |-> TRUE, translator_ok |-> FALSE, units |-> {},
      monitoring |-> NoItems]}
    \cup [parser_ok : {TRUE}, translator_ok : {TRUE},
          units : TranslatedUnits, monitoring : ToscaMonitoring]

\* the template the external translator writes for the given units
TranslatedDoc(units) ==
    [heat_template_version |-> HEAT_TEMPLATE_BASE.heat_template_version,
     description |-> Leaf("d"),
     outputs |-> NoItems,
     resources |-> [n \in {<<u>> : u \in units} |->
                      [type |-> "OS::Nova::Server",
                       properties |-> [flavor |-> "m1.tiny",
                                       image |-> Leaf("img")]]]]

\* lines 79-81 and 292-328
GenerateHotFromTosca ==
    /\ pc = "dialect"
    /\ self.vnfd_yaml.tosca_definitions_version
    /\ \E o \in ToscaOutcomes :
        LET param_values == Get(loc.dev_attrs, "param_values") IN
        IF "param_values" \in DOMAIN loc.dev_attrs
           /\ param_values # EmptyText /\ param_values.writer = "malformed"
        THEN /\ Raise("ParamYAMLNotWellFormed")
             /\ UNCHANGED <<self, calls>>
        ELSE IF ~o.parser_ok
        THEN /\ Raise("ToscaParserFailed")
             /\ calls' = Append(calls, "tosca_parser")
             /\ UNCHANGED self
        ELSE IF ~o.translator_ok
        THEN /\ Raise("HeatTranslatorFailed")
             /\ calls' = calls \o <<"tosca_parser", "heat_translator">>
             /\ UNCHANGED self
        ELSE /\ self' = [self EXCEPT
                    !.heat_template_yaml =
                        Text("heat-translator", TranslatedDoc(o.units)),
                    !.monitoring_dict = o.monitoring]
             /\ calls' = calls \o <<"tosca_parser", "heat_translator">>
             /\ pc' = "translated"
             /\ UNCHANGED exc
    /\ loc' = Put(loc, "is_tosca_format", TRUE)
    /\ UNCHANGED <<scal, prm, vnf0>>

\* lines 82-83 and 331-405
GenerateHotFromLegacy ==
    /\ pc = "dialect"
    /\ ~self.vnfd_yaml.tosca_definitions_version
    /\ LET r == _generate_hot_from_legacy(
                    self.unsupported_props, self.fields,
                    self.vnf.attributes, self.vnfd_yaml, loc.dev_attrs)
       IN IF r.raised # ""
          THEN /\ Raise(r.raised)
               /\ self' = [self EXCEPT !.vnf.attributes = r.attributes]
          ELSE /\ self' = [self EXCEPT
                    !.vnf.attributes = r.attributes,
                    !.heat_template_yaml = r.heat_template_yaml,
                    !.monitoring_dict = r.monitoring_dict]
               /\ pc' = "translated"
               /\ UNCHANGED exc
    /\ calls' = Append(calls, "legacy")
    /\ loc' = Put(loc, "is_tosca_format", FALSE)
    /\ UNCHANGED <<scal, prm, vnf0>>

\* A variant of line 85 that sends every dialect on to the expanders.
SetTemplateFieldThenScaling ==
    /\ pc = "translated"
    /\ self' = [self EXCEPT
            !.fields = Put(@, "template", self.heat_template_yaml)]
    /\ pc' = "scaling"
    /\ UNCHANGED <<scal, prm, vnf0, loc, exc, calls>>

\* A variant of line 85 that leaves fields['template'] to _handle_scaling.
SetTemplateFieldSkipped ==
    /\ pc = "translated"
    /\ pc' = IF loc.is_tosca_format THEN "scaling" ELSE "monitoring"
    /\ UNCHANGED <<scal, prm, vnf0, self, loc, exc, calls>>

\* line 85
SetTemplateField ==
    /\ pc = "translated"
    /\ self' = [self EXCEPT
            !.fields = Put(@, "template", self.heat_template_yaml)]
    /\ pc' = IF loc.is_tosca_format THEN "scaling" ELSE "monitoring"
    /\ UNCHANGED <<scal, prm, vnf0, loc, exc, calls>>

\* lines 86-87 and 130-132
GenerateHotScaling ==
    /\ pc = "scaling"
    /\ LET r == _generate_hot_scaling(self.vnfd_yaml.topology_template,
                                      "scaling.yaml")
       IN /\ loc' = Put(loc, "scaling", r)
          /\ IF r.raised # "" THEN Raise(r.raised)
             ELSE pc' = "alarm" /\ UNCHANGED exc
    /\ calls' = Append(calls, "scaling")
    /\ UNCHANGED <<scal, prm, vnf0, self>>

\* lines 133-134
GenerateHotAlarmResource ==
    /\ pc = "alarm"
    /\ LET r == _generate_hot_alarm_resource(
                    self.heat_template_yaml, self.vnf,
                    self.vnfd_yaml.topology_template)
       IN /\ loc' = Put(loc, "alarm", r)
          /\ self' = [self EXCEPT
                !.heat_template_yaml = r.heat_template_yaml]
          /\ IF r.raised # "" THEN Raise(r.raised)
             ELSE pc' = "persist" /\ UNCHANGED exc
    /\ calls' = Append(calls, "alarm")
    /\ UNCHANGED <<scal, prm, vnf0>>

\* lines 135-162: what _handle_scaling leaves in [fields, attributes]
HandleScalingResult(fields, attributes, heat_template_yaml, scaling, alarm) ==
    LET fields1 == IF alarm.is_enabled_alarm /\ ~scaling.is_scaling_needed
                   THEN Put(fields, "template", heat_template_yaml)
                   ELSE fields
        main_dict == IF alarm.is_enabled_alarm
                     THEN [scaling.main_dict EXCEPT
                            !.resources = Update(@, alarm.alarm_resource)]
                     ELSE scaling.main_dict
        main_yaml == yaml_dump(main_dict)
        files == IF alarm.is_enabled_alarm
                 THEN ("scaling.yaml" :> alarm.sub_heat_tpl_yaml)
                 ELSE ("scaling.yaml" :> heat_template_yaml)
    IN  IF scaling.is_scaling_needed
        THEN [fields |-> Put(Put(fields1, "template", main_yaml),
                             "files", files),
              attributes |->
                Put(Put(Put(attributes, "heat_template", main_yaml),
                        "scaling.yaml", heat_template_yaml),
                    "scaling_group_names",
                    jsonutils_dumps(scaling.scaling_group_names))]
        ELSE IF ~Truthy(Get(attributes, "heat_template"))
        THEN [fields |-> fields1,
              attributes |->
                Put(attributes, "heat_template", fields1["template"])]
        ELSE [fields |-> fields1, attributes |-> attributes]

HandleScaling ==
    /\ pc = "persist"
    /\ LET r == HandleScalingResult(self.fields, self.vnf.attributes,
                                    self.heat_template_yaml, loc.scaling,
                                    loc.alarm)
       IN self' = [self EXCEPT !.fields = r.fields,
                               !.vnf.attributes = r.attributes]
    /\ pc' = "monitoring"
    /\ UNCHANGED <<scal, prm, vnf0, loc, exc, calls>>

\* lines 88-90
MonitoringResult(attributes, monitoring_dict) ==
    IF monitoring_dict # NoItems
    THEN Put(attributes, "monitoring_policy",
             jsonutils_dumps(monitoring_dict))
    ELSE attributes

PersistMonitoring ==
    /\ pc = "monitoring"
    /\ self' = [self EXCEPT !.vnf.attributes =
                    MonitoringResult(@, self.monitoring_dict)]
    /\ pc' = "done"
    /\ UNCHANGED <<scal, prm, vnf0, loc, exc, calls>>

Next ==
    \/ Prepare
    \/ GenerateHotFromTosca
    \/ GenerateHotFromLegacy
    \/ SetTemplateField
    \/ GenerateHotScaling
    \/ GenerateHotAlarmResource
    \/ HandleScaling
    \/ PersistMonitoring

NextLegacy ==
    \/ Prepare
    \/ GenerateHotFromLegacy
    \/ SetTemplateField
    \/ PersistMonitoring

(***************************************************************************)
(* Inputs of the run: the service record and its descriptor.               *)
(***************************************************************************)
MaxUnits == 2
MaxPolicies == 2
UnitIdList == <<"VDU1", "VDU2", "VDU3", "VDU4">>
PolicyNameList == <<"P1", "P2", "P3", "P4">>

\* a key that may be absent, or hold one of the values
Opt(key, values) == {NoItems} \cup {(key :> v) : v \in values}

StoredTemplate ==
    Text("stored",
         [heat_template_version |-> HEAT_TEMPLATE_BASE.heat_template_version,
          description |-> Leaf("stored"), outputs |-> NoItems,
          resources |-> NoItems])

\* the param_values a caller may give for the legacy descriptors below:
\* the image of VDU1, wrapped in 'param'; nothing for any unit
ParamValuesFull ==
    Text("caller",
         Dict([vdus |-> Dict([VDU1 |->
                Dict([param |-> Dict([image |-> Leaf("cirros")])])])]))
ParamValuesNoUnit == Text("caller", Dict([vdus |-> Dict(NoItems)]))
ParamValuesMalformed == Text("malformed", Dict(NoItems))

NetworkInterfaceSets ==
    {<<>>,
     <<[network |-> "net0",
        addresses |-> [islist |-> FALSE, ips |-> <<>>]]>>}

\* the units of a legacy descriptor, the i-th named UnitIdList[i]
UnitKinds(images, userdata, monitoring, failure) ==
    [vm_image : images, instance_type : {"m1.small"},
     network_interfaces : NetworkInterfaceSets,
     user_data : userdata, user_data_format : userdata,
     monitoring_policy : monitoring, failure_policy : failure,
     service_type : {FALSE}]

UnitLists(kinds) ==
    UNION {{[i \in 1..n |->
                [id |-> UnitIdList[i],
                 vm_image |-> IF i = 1 THEN k[i].vm_image ELSE Leaf("img"),
                 instance_type |-> k[i].instance_type,
                 has_nics |-> k[i].network_interfaces # <<>>,
                 network_interfaces |-> k[i].network_interfaces,
                 user_data |-> k[i].user_data,
                 user_data_format |-> k[i].user_data_format,
                 monitoring_policy |-> k[i].monitoring_policy,
                 failure_policy |-> k[i].failure_policy,
                 service_type |-> k[i].service_type]] :
            k \in [1..n -> kinds]} : n \in 0..MaxUnits}

LegacyDescriptors(descriptions, kinds) ==
    {[tosca_definitions_version |-> FALSE, description |-> d, vdus |-> u,
      topology_template |-> [policies |-> <<>>]] :
        d \in descriptions, u \in UnitLists(kinds)}

PolicyKinds ==
    [type : {SCALING_POLICY, ALARMING_POLICY}, wellformed : BOOLEAN]
    \cup {[type |-> "tosca.policies.tacker.Placement", wellformed |-> TRUE]}

PolicyLists ==
    UNION {{[i \in 1..n |-> [name |-> PolicyNameList[i], type |-> k[i].type,
                             wellformed |-> k[i].wellformed]] :
            k \in [1..n -> PolicyKinds]} : n \in 0..MaxPolicies}

ToscaDescriptors ==
    {[tosca_definitions_version |-> TRUE, description |-> Leaf("d"),
      vdus |-> <<>>, topology_template |-> [policies |-> p]] :
        p \in PolicyLists}

HeatTemplateBefore == Opt("heat_template", {EmptyText, StoredTemplate})

\* the service records of the standards-based runs
ToscaVnfs ==
    {[id |-> "vnf-1", vnfd |-> d, attributes |-> a @@ b @@ c @@ t] :
        d \in ToscaDescriptors,
        a \in HeatTemplateBefore,
        b \in Opt("alarm_url", {"", "http://tacker/alarm"}),
        c \in Opt("param_values", {ParamValuesMalformed}),
        t \in Opt("template", {StoredTemplate})}

\* the service records of the legacy runs; lines 332-333: a legacy run is
\* given no template and no template_url
LegacyVnfs(descriptors, before, params) ==
    {[id |-> "vnf-1", vnfd |-> d, attributes |-> a @@ c] :
        d \in descriptors, a \in before, c \in params}

InitRun(vnfs) ==
    /\ \E v \in vnfs : self = NewTranslator(v) /\ vnf0 = v.attributes
    /\ loc = NoItems /\ pc = "start" /\ exc = "" /\ calls = <<>>
    /\ scal = ScalIdle /\ prm = PrmIdle

Init ==
    InitRun(ToscaVnfs \cup
            LegacyVnfs(
                LegacyDescriptors(
                    {Leaf("d")},
                    UnitKinds({Leaf("img"), GetInput("image")},
                              {FALSE, TRUE}, {"absent", "ping"},
                              {"absent"})),
                HeatTemplateBefore,
                Opt("param_values", {ParamValuesFull, ParamValuesNoUnit})))

Spec == Init /\ [][Next]_vars

\* the legacy runs: units that differ in image, interfaces and user data
\* under every kind of param_values, and units that differ in monitoring
InitLegacy ==
    InitRun(LegacyVnfs(
                LegacyDescriptors(
                    {Leaf("d"), Leaf("get_input")},
                    UnitKinds({Leaf("img"), GetInput("image")},
                              {FALSE, TRUE}, {"absent"}, {"absent"})),
                {NoItems},
                Opt("param_values",
                    {EmptyText, ParamValuesMalformed, ParamValuesFull,
                     ParamValuesNoUnit}))
            \cup
            LegacyVnfs(
                LegacyDescriptors(
                    {Leaf("d")},
                    [vm_image : {Leaf("img")}, instance_type : {"m1.small"},
                     network_interfaces : {<<>>},
                     user_data : {FALSE}, user_data_format : {FALSE},
                     monitoring_policy : {"absent", "noop", "ping", "http"},
                     failure_policy : {"absent", "respawn"},
                     service_type : {FALSE, TRUE}]),
                {NoItems}, {NoItems}))

SpecLegacy == InitLegacy /\ [][NextLegacy]_vars

(***************************************************************************)
(* Properties of the translation run.                                      *)
(***************************************************************************)
\* the descriptor of the run and what it declares
Descriptor == self.vnf.vnfd
IsTosca == Descriptor.tosca_definitions_version
Policies == Descriptor.topology_template.policies
PoliciesOfType(type) ==
    {i \in 1..Len(Policies) : Policies[i].type = type}
AlarmName == <<Policies[FirstPolicy(Policies, ALARMING_POLICY)].name>>
TemplateResources == self.fields["template"].doc.resources
Finished == pc = "done"
Failed == pc = "failed"

\* C3: in a finished standards-based run over a topology with exactly one
\* scaling and exactly one alarming policy, the alarm resource is in the main
\* template with matching_metadata holding vnf['id'], and the unit's resource
\* of the sub-template under files['scaling.yaml'] has metadata holding the
\* same id; over a topology with an alarming and no scaling policy the alarm
\* resource has no matching_metadata and no resource has metadata.
C3_AlarmCorrelatedWithUnit ==
    (Finished /\ IsTosca) =>
        /\ (/\ Cardinality(PoliciesOfType(SCALING_POLICY)) = 1
            /\ Cardinality(PoliciesOfType(ALARMING_POLICY)) = 1) =>
                /\ AlarmName \in DOMAIN TemplateResources
                /\ "matching_metadata"
                        \in DOMAIN TemplateResources[AlarmName].properties
                /\ TemplateResources[AlarmName].properties["matching_metadata"]
                        = ("metadata.user_metadata.vnf_id" :> self.vnf.id)
                /\ "files" \in DOMAIN self.fields
                /\ LET unit == self.fields["files"]["scaling.yaml"]
                                    .doc.resources[<<"VDU1">>]
                   IN  /\ "metadata" \in DOMAIN unit.properties
                       /\ unit.properties["metadata"]
                            = ("metering.vnf_id" :> self.vnf.id)
        /\ (/\ PoliciesOfType(SCALING_POLICY) = {}
            /\ PoliciesOfType(ALARMING_POLICY) # {}) =>
                /\ AlarmName \in DOMAIN TemplateResources
                /\ "matching_metadata"
                        \notin DOMAIN TemplateResources[AlarmName].properties
                /\ \A r \in DOMAIN TemplateResources :
                        "metadata" \notin DOMAIN TemplateResources[r].properties
                /\ "files" \notin DOMAIN self.fields

C3_CorrelatedRun ==
    /\ Finished /\ IsTosca
    /\ Cardinality(PoliciesOfType(SCALING_POLICY)) = 1
    /\ Cardinality(PoliciesOfType(ALARMING_POLICY)) = 1
    /\ TemplateResources[AlarmName].properties["matching_metadata"]
            = ("metadata.user_metadata.vnf_id" :> self.vnf.id)
    /\ self.fields["files"]["scaling.yaml"].doc.resources[<<"VDU1">>]
            .properties["metadata"] = ("metering.vnf_id" :> self.vnf.id)

\* the stages of a standards-based run, in the order generate_hot calls them
ToscaStages == <<"tosca_parser", "heat_translator", "scaling", "alarm">>
IsPrefix(s, t) == Len(s) <= Len(t) /\ s = SubSeq(t, 1, Len(s))

\* C4: the standards-based path is taken exactly when the descriptor has
\* 'tosca_definitions_version'; a run over a descriptor without it never
\* calls the external parser, the translator, the scaling expander or the
\* alarm expander; a run over a descriptor with it calls them in the order
\* parser, translator, scaling expander, alarm expander, each once when the
\* run finishes, and never calls the legacy translator.
C4_DialectDecidesStages ==
    /\ ("is_tosca_format" \in DOMAIN loc) => (loc["is_tosca_format"] = IsTosca)
    /\ IsTosca => /\ IsPrefix(calls, ToscaStages)
                  /\ Finished => calls = ToscaStages
    /\ ~IsTosca => /\ IsPrefix(calls, <<"legacy">>)
                   /\ Finished => calls = <<"legacy">>

C4_ToscaRunFinished == Finished /\ IsTosca /\ calls = ToscaStages

\* scaling expansion occurred in the run
Expanded == "scaling" \in DOMAIN loc /\ loc["scaling"].is_scaling_needed

\* C5: after a finished run of either dialect without scaling expansion,
\* vnf['attributes']['heat_template'] equals fields['template'] when the
\* record had no heat_template (absent or empty) before the run, and is
\* the value it had before the run otherwise.
C5_TemplatePersistedWithoutExpansion ==
    (Finished /\ ~Expanded) =>
        IF ~Truthy(Get(vnf0, "heat_template"))
        THEN Get(self.vnf.attributes, "heat_template")
                = self.fields["template"]
        ELSE Get(self.vnf.attributes, "heat_template") = vnf0["heat_template"]

\* the attributes generate_hot persists on the service record
Persisted ==
    {"heat_template", "scaling.yaml", "scaling_group_names",
     "monitoring_policy"}
AttributesKept ==
    \A k \in Persisted :
        /\ (k \in DOMAIN self.vnf.attributes) = (k \in DOMAIN vnf0)
        /\ Get(self.vnf.attributes, k) = Get(vnf0, k)
\* fields as _update_fields left it: no template but one the caller gave
FieldsAsPrepared ==
    /\ "files" \notin DOMAIN self.fields
    /\ IF "template" \in DOMAIN vnf0
       THEN self.fields["template"] = vnf0["template"]
       ELSE "template" \notin DOMAIN self.fields
\* the failure was raised by the scaling or the alarm expander
FailedInExpansion == Failed /\ "scaling" \in DOMAIN loc
\* no stage ran after the one that raised
StagesStopped ==
    /\ ("scaling" \in DOMAIN loc /\ loc["scaling"].raised # "")
            => "alarm" \notin DOMAIN loc
    /\ AttributesKept

LegacyReturned == \E j \in DOMAIN calls : calls[j] = "legacy"
Units == Descriptor.vdus
\* the units that declare exactly one of user_data and user_data_format
LoneUnits ==
    {i \in 1..Len(Units) : Units[i].user_data # Units[i].user_data_format}
FirstLone == CHOOSE i \in LoneUnits : \A j \in LoneUnits : i <= j
Marker == MentionsGetInput(VnfdDoc(Descriptor.description, Units))
ParamFailures ==
    {"ParamYAMLInputMissing", "ParamYAMLNotWellFormed", "InputValuesMissing"}
\* the unit has an interface whose addresses are not a list
BadAddresses(vdu_dict) ==
    \E n \in 1..Len(vdu_dict.network_interfaces) :
        /\ "addresses" \in DOMAIN vdu_dict.network_interfaces[n]
        /\ ~vdu_dict.network_interfaces[n]["addresses"].islist
NoTemplateBody ==
    /\ self.heat_template_yaml = NoneValue
    /\ "template" \notin DOMAIN self.fields

\* C7 as stated: a legacy run with a unit that declares exactly one of
\* user_data and user_data_format fails with UserDataFormatNotFound,
\* heat_template_yaml stays unset and fields['template'] is not populated;
\* a run with no such unit does not fail with it.
C7_LoneUserDataAlwaysReported ==
    (~IsTosca /\ LegacyReturned) =>
        IF LoneUnits # {}
        THEN Failed /\ exc = "UserDataFormatNotFound" /\ NoTemplateBody
        ELSE exc # "UserDataFormatNotFound"

\* C7: a legacy run with a unit that declares exactly one of user_data and
\* user_data_format fails, heat_template_yaml stays unset and
\* fields['template'] is not populated; the failure is
\* UserDataFormatNotFound unless parameter resolution failed first or a
\* unit up to the first such unit has addresses that are not a list; a run
\* with no such unit does not fail with UserDataFormatNotFound.
C7_LoneUserDataFails ==
    (~IsTosca /\ LegacyReturned) =>
        IF LoneUnits # {}
        THEN /\ Failed /\ NoTemplateBody
             /\ \/ exc = "UserDataFormatNotFound"
                \/ exc \in ParamFailures /\ Marker
                \/ /\ exc = "IPAddrInvalidInput"
                   /\ \E j \in 1..FirstLone : BadAddresses(Units[j])
             /\ (~Marker /\ \A j \in 1..FirstLone : ~BadAddresses(Units[j]))
                    => exc = "UserDataFormatNotFound"
        ELSE exc # "UserDataFormatNotFound"

C7_SecondUnitLone ==
    /\ ~IsTosca /\ Failed /\ exc = "UserDataFormatNotFound"
    /\ Len(Units) = 2 /\ LoneUnits = {2}
    /\ Units[2].user_data_format /\ NoTemplateBody

\* C8: a legacy run over a descriptor text with the marker 'get_input' and
\* no param_values (absent or empty) fails with ParamYAMLInputMissing with
\* no unit translated, heat_template_yaml unset and no fields['template'];
\* over a text without the marker parameter resolution raises nothing and
\* a run whose units are well-formed does not fail.
C8_MissingParamValues ==
    (~IsTosca /\ LegacyReturned) =>
        /\ (Marker /\ ~Truthy(Get(vnf0, "param_values"))) =>
                /\ Failed /\ exc = "ParamYAMLInputMissing"
                /\ NoTemplateBody
                /\ self.vnf.attributes = vnf0
                /\ self.monitoring_dict = NoneValue
        /\ ~Marker =>
                /\ exc \notin ParamFailures
                /\ (/\ Len(Units) > 0 /\ LoneUnits = {}
                    /\ \A j \in 1..Len(Units) : ~BadAddresses(Units[j]))
                        => ~Failed

C8_MarkerWithoutValues ==
    /\ ~IsTosca /\ Failed /\ exc = "ParamYAMLInputMissing"
    /\ Marker /\ Len(Units) > 0 /\ "param_values" \notin DOMAIN vnf0
    /\ NoTemplateBody

\* the policy a unit's entry of the monitoring document holds
ExpectedMonitoring(vdu_dict) ==
    IF vdu_dict.monitoring_policy = "ping"
       /\ vdu_dict.failure_policy = "respawn"
    THEN StructuredPing
    ELSE MonitoringName(vdu_dict.monitoring_policy)
Monitored(vdu_dict) == vdu_dict.monitoring_policy \notin {"absent", "noop"}
MonitoredUnits ==
    IF "vdus" \in DOMAIN self.monitoring_dict
    THEN self.monitoring_dict["vdus"] ELSE NoItems

\* C9: after a finished legacy run the monitoring document has an entry
\* under the identity of every unit whose monitoring_policy is not 'noop',
\* holding its policy, and no entry for a unit whose policy is 'noop' or
\* absent.
C9_EveryMonitoredUnitKept ==
    (Finished /\ ~IsTosca) =>
        \A i \in 1..Len(Units) :
            IF Monitored(Units[i])
            THEN /\ Units[i].id \in DOMAIN MonitoredUnits
                 /\ MonitoredUnits[Units[i].id] = ExpectedMonitoring(Units[i])
            ELSE Units[i].id \notin DOMAIN MonitoredUnits

\* C10: the alarm resource has alarm_actions exactly when the record has
\* an 'alarm_url' attribute, and then it is the list [alarm_url].
C10_AlarmActionsOnlyWithUrl ==
    ("alarm" \in DOMAIN loc /\ loc["alarm"].raised = ""
        /\ loc["alarm"].is_enabled_alarm) =>
        \A n \in DOMAIN loc["alarm"].alarm_resource :
            LET properties == loc["alarm"].alarm_resource[n].properties
            IN  IF "alarm_url" \in DOMAIN self.vnf.attributes
                THEN /\ "alarm_actions" \in DOMAIN properties
                     /\ properties["alarm_actions"]
                            = <<self.vnf.attributes["alarm_url"]>>
                ELSE "alarm_actions" \notin DOMAIN properties

\* the first scaling policy of the topology in list order
ScalingPolicies == PoliciesOfType(SCALING_POLICY)
FirstScalingName ==
    Policies[CHOOSE i \in ScalingPolicies :
                \A j \in ScalingPolicies : i <= j].name
AlarmNames ==
    IF PoliciesOfType(ALARMING_POLICY) = {} THEN {} ELSE {AlarmName}
\* a template without the metadata the alarm expander puts on its units
WithoutMetadata(doc) ==
    LET resources == doc.resources
    IN  [heat_template_version |-> doc.heat_template_version,
         description |-> doc.description,
         outputs |-> doc.outputs,
         resources |->
            [n \in DOMAIN resources |->
                [type |-> resources[n].type,
                 properties |-> Without(resources[n].properties, "metadata")]]]
\* a template without its alarm resource
WithoutAlarm(doc) ==
    [heat_template_version |-> doc.heat_template_version,
     description |-> doc.description,
     outputs |-> doc.outputs,
     resources |-> [n \in (DOMAIN doc.resources) \ AlarmNames |->
                        doc.resources[n]]]
\* the document is the template the external translator wrote
IsTranslated(doc) == \E units \in TranslatedUnits : doc = TranslatedDoc(units)

\* C11: after a finished standards-based run over a topology with a scaling
\* policy, the resources of fields['template'] are exactly the group G1 and
\* '<P>_scale_out' and '<P>_scale_in' for the first scaling policy P, plus
\* the alarm resource when there is an alarming policy, and no unit of the
\* translated template; fields['files'] has only 'scaling.yaml', which holds
\* the translated template (with the unit metadata when there is an alarming
\* policy); scaling_group_names maps only P to G1.  Over a topology without
\* a scaling policy nothing is expanded, fields['template'] is the flat
\* translated template (with the alarm resource when there is one) and
\* fields has no 'files'.
C11_MainTemplateOfFirstPolicy ==
    (Finished /\ IsTosca) =>
        IF ScalingPolicies # {}
        THEN /\ Expanded
             /\ DOMAIN TemplateResources =
                    {<<"G1">>, <<FirstScalingName, "_scale_", "out">>,
                     <<FirstScalingName, "_scale_", "in">>} \cup AlarmNames
             /\ TemplateResources[<<"G1">>].type
                    = "OS::Heat::AutoScalingGroup"
             /\ TemplateResources[<<"G1">>].properties.resource.type
                    = "scaling.yaml"
             /\ \A a \in {"out", "in"} :
                    LET r == TemplateResources[<<FirstScalingName,
                                                 "_scale_", a>>]
                    IN  /\ r.type = "OS::Heat::ScalingPolicy"
                        /\ r.properties.auto_scaling_group_id
                                = [get_resource |-> <<"G1">>]
             /\ "files" \in DOMAIN self.fields
             /\ DOMAIN self.fields["files"] = {"scaling.yaml"}
             /\ LET sub == self.fields["files"]["scaling.yaml"].doc
                IN  IF AlarmNames = {} THEN IsTranslated(sub)
                    ELSE IsTranslated(WithoutMetadata(sub))
             /\ self.vnf.attributes["scaling_group_names"]
                    = jsonutils_dumps((FirstScalingName :> <<"G1">>))
        ELSE /\ ~Expanded
             /\ "files" \notin DOMAIN self.fields
             /\ "scaling_group_names" \notin DOMAIN self.vnf.attributes
             /\ IsTranslated(WithoutAlarm(self.fields["template"].doc))

C11_SecondScalingPolicyIgnored ==
    /\ Finished /\ IsTosca /\ Len(Policies) = 2
    /\ ScalingPolicies = {1, 2}
    /\ DOMAIN TemplateResources =
            {<<"G1">>, <<Policies[1].name, "_scale_", "out">>,
             <<Policies[1].name, "_scale_", "in">>}
    /\ IsTranslated(self.fields["files"]["scaling.yaml"].doc)

(***************************************************************************)
(* Legacy runs over one unit with every kind of network interface.         *)
(***************************************************************************)
MaxInterfaces == 2

\* an interface: its network, addresses that are absent, a list or not a
\* list, and a management flag that is absent, false or true
InterfaceKinds ==
    {n @@ a @@ g :
        n \in {("network" :> "net0"), ("network" :> "net1")},
        a \in Opt("addresses",
                  {[islist |-> TRUE, ips |-> <<>>],
                   [islist |-> TRUE, ips |-> <<"10.0.0.5">>],
                   [islist |-> FALSE, ips |-> <<>>]}),
        g \in Opt("management", BOOLEAN)}

InterfaceLists ==
    UNION {[1..n -> InterfaceKinds] : n \in 0..MaxInterfaces}

PortDescriptors ==
    {[tosca_definitions_version |-> FALSE, description |-> Leaf("d"),
      vdus |-> <<[id |-> UnitIdList[1], vm_image |-> Leaf("img"),
                  instance_type |-> "m1.small",
                  has_nics |-> nics # <<>>, network_interfaces |-> nics,
                  user_data |-> FALSE, user_data_format |-> FALSE,
                  monitoring_policy |-> "absent",
                  failure_policy |-> "absent", service_type |-> FALSE]>>,
      topology_template |-> [policies |-> <<>>]] :
        nics \in InterfaceLists}

InitPorts == InitRun(LegacyVnfs(PortDescriptors, {NoItems}, {NoItems}))

SpecPorts == InitPorts /\ [][NextLegacy]_vars

\* the interfaces of the unit and what the finished run made of them
Nics == Units[1].network_interfaces
Template == self.heat_template_yaml.doc
Networks == Template.resources[<<Units[1].id>>].properties["networks"]
Managed(nic) == "management" \in DOMAIN nic /\ nic["management"]
CreatesPort(nic) == "addresses" \in DOMAIN nic \/ Managed(nic)
PortName(nic) == <<Units[1].id, "-", nic["network"], "-port">>
GivenAddresses(nic) ==
    IF "addresses" \in DOMAIN nic THEN nic["addresses"].ips ELSE <<>>
\* the port of an interface: the security default, the given addresses and
\* the interface's own properties
ExpectedPort(nic) ==
    [type |-> "OS::Neutron::Port",
     properties |->
        ("network" :> nic["network"])
        @@ ("fixed_ips" :> [k \in 1..Len(GivenAddresses(nic)) |->
                                [ip_address |-> GivenAddresses(nic)[k]]])
        @@ (IF self.unsupported_props # NoItems
            THEN ("value_specs" :> [port_security_enabled |-> FALSE])
            ELSE ("port_security_enabled" :> FALSE))]
\* the last interface in list order that creates the port of the name
LastWithPort(name) ==
    CHOOSE i \in 1..Len(Nics) :
        /\ CreatesPort(Nics[i]) /\ PortName(Nics[i]) = name
        /\ \A j \in (i + 1)..Len(Nics) :
                ~(CreatesPort(Nics[j]) /\ PortName(Nics[j]) = name)
MgmtOutput == <<"mgmt_ip-", Units[1].id>>
\* what the run made of the interfaces that create a port, and the outputs
PortsAsDeclared ==
    /\ Len(Networks) = Len(Nics)
    /\ DOMAIN Template.resources =
            {<<Units[1].id>>}
            \cup {PortName(Nics[i]) :
                    i \in {j \in 1..Len(Nics) : CreatesPort(Nics[j])}}
    /\ \A i \in 1..Len(Nics) :
            CreatesPort(Nics[i]) =>
                /\ Networks[i] = [port |-> [get_resource |-> PortName(Nics[i])]]
                /\ Template.resources[PortName(Nics[i])]
                        = ExpectedPort(Nics[LastWithPort(PortName(Nics[i]))])
    /\ (MgmtOutput \in DOMAIN Template.outputs)
            = (\E i \in 1..Len(Nics) : Managed(Nics[i]))

C13_PersistedSubTemplateIsDelivered ==
    (Finished /\ Expanded) =>
        /\ self.vnf.attributes["scaling.yaml"].doc
                = self.fields["files"]["scaling.yaml"].doc
        /\ self.vnf.attributes["heat_template"].doc
                = self.fields["template"].doc

====
